---- MODULE Spec2Model ----
(***************************************************************************)
(* The AvsLogic contract of src/src/lib.rs together with the part of the   *)
(* NEAR host it calls into: the yield/resume table, the register written   *)
(* by promise_yield_create, the callback receipt that runs                 *)
(* return_external_response, and the outcome of each function call.        *)
(*                                                                         *)
(* Every function call is one atomic step.  A call that panics commits     *)
(* nothing: the contract state is written back only when the method        *)
(* returns, and the host drops the logs and the promises of a failed call. *)
(***************************************************************************)
EXTENDS Integers, Sequences, FiniteSets, TLC

(***************************************************************************)
(* Integer widths.  TLC's integers are 32 bits wide, so the two widths of  *)
(* the program are kept as widths but scaled: request_id (u64, line 27)    *)
(* has U64Bits bits and the finalizer's parameter (u32, line 101) has      *)
(* U32Bits bits.  What is kept is the relation the program has,            *)
(* U32Bits < U64Bits: a counter value the finalizer's type cannot hold,    *)
(* and a largest counter value, are both reachable by counting up from 0.  *)
(***************************************************************************)
U64Bits == 2
U32Bits == 1
U64Max == 2^U64Bits - 1
U32Max == 2^U32Bits - 1

YIELD_REGISTER == 0
\* CryptoHash is [u8; 32]
CryptoHashLen == 32

\* Bounds of the model
MaxYields == 4
MaxPending == 2

Centers == {"attestation_center.testnet"}
Accounts == {"model_owner.testnet", "other.testnet"}
ContractAccount == "avs.testnet"
\* Who may sign a transaction that names a method directly
ExternalCallers == {"other.testnet", ContractAccount}
\* Who calls respond: the attestation center or anybody else
RespondCallers == Centers \cup {"other.testnet"}
ModelNames == {"Model-A", "model-a"}
Rewards == {1, 10}
\* Answer texts: characters are one-character strings; the second text holds
\* the two characters JSON escapes.
Responses == { <<"4", "2">>, <<"a", "\"", "\\">> }

None == [some |-> FALSE, bytes |-> << >>]
Some(b) == [some |-> TRUE, bytes |-> b]

(***************************************************************************)
(* serde_json on a String (line 95, and the #[callback_result] of line     *)
(* 102): to_vec writes the text between quotes with '"' and '\' escaped,   *)
(* from_slice reads it back and fails on anything that is not one JSON     *)
(* string.                                                                 *)
(***************************************************************************)
RECURSIVE escape(_)
escape(s) ==
    IF s = << >> THEN << >>
    ELSE IF Head(s) = "\"" THEN <<"\\", "\"">> \o escape(Tail(s))
    ELSE IF Head(s) = "\\" THEN <<"\\", "\\">> \o escape(Tail(s))
    ELSE <<Head(s)>> \o escape(Tail(s))

to_vec(response) == <<"\"">> \o escape(response) \o <<"\"">>

\* Reads the body of a JSON string from position i of b; acc is the text so
\* far.  Ok only when the closing quote is the last byte.
RECURSIVE parse_str(_, _, _)
parse_str(b, i, acc) ==
    IF i > Len(b) THEN [ok |-> FALSE, text |-> << >>]
    ELSE IF b[i] = "\"" THEN [ok |-> i = Len(b), text |-> IF i = Len(b) THEN acc ELSE << >>]
    ELSE IF b[i] = "\\" THEN
        IF i + 1 <= Len(b) /\ b[i + 1] \in {"\"", "\\"}
        THEN parse_str(b, i + 2, Append(acc, b[i + 1]))
        ELSE [ok |-> FALSE, text |-> << >>]
    ELSE parse_str(b, i + 1, Append(acc, b[i]))

from_slice(b) ==
    IF Len(b) >= 2 /\ b[1] = "\"" THEN parse_str(b, 2, << >>)
    ELSE [ok |-> FALSE, text |-> << >>]

(***************************************************************************)
(* The arguments of the callback: json!({ "request_id": n }) (line 64),    *)
(* read back by the method wrapper into request_id: u32 (line 101).        *)
(***************************************************************************)
json_args(n) == [request_id |-> n]

from_json_u32(args) ==
    IF args.request_id >= 0 /\ args.request_id <= U32Max
    THEN [ok |-> TRUE, value |-> args.request_id]
    ELSE [ok |-> FALSE, value |-> 0]

\* Response (lines 17-21)
NoResponse == [tag |-> "None", text |-> << >>]
Answer(text) == [tag |-> "Answer", text |-> text]
TimeOutError == [tag |-> "TimeOutError", text |-> << >>]

\* Result<String, PromiseError> (line 102)
Ok(text) == [ok |-> TRUE, value |-> text]
Err == [ok |-> FALSE, value |-> << >>]

VARIABLES
    attestation_center,  \* AvsLogic.attestation_center
    request_id,          \* AvsLogic.request_id
    models,              \* AvsLogic.models: model name -> account
    overflow_checks,     \* the build: whether integer overflow panics
    yield_count,         \* host: how many suspensions it has created
    yields,              \* host: the suspensions whose callback has not run yet
    outcome              \* the latest step: the function called and what it produced

vars == <<attestation_center, request_id, models, overflow_checks, yield_count,
          yields, outcome>>

\* The data id the host gives the k-th suspension: 32 bytes, distinct per k.
DataIds ==
    [k \in 1..(MaxYields + 1) |->
        [i \in 1..CryptoHashLen |-> IF i = CryptoHashLen THEN k ELSE 0]]
DataId(k) == DataIds[k]

NoCall ==
    [fn |-> "none", status |-> "none", caller |-> "", yield_id |-> << >>,
     resumed |-> FALSE, delivered |-> << >>, data |-> << >>, value |-> NoResponse,
     events |-> << >>, transfers |-> << >>, logs |-> << >>,
     model_name |-> "", account |-> "", reward |-> 0]

\* HashMap<String, AccountId>: a name that is not a key maps to NoAccount.
NoAccount == ""
HashMap_new == [n \in ModelNames |-> NoAccount]
\* An insert that keeps the value of a key that is already there
insert_KeepFirst(map, key, value) ==
    IF map[key] = NoAccount THEN [map EXCEPT ![key] = value] ELSE map
insert(map, key, value) == [map EXCEPT ![key] = value]
\* A lookup that ignores the case of the name
get_IgnoreCase(map, key) ==
    LET lower(n) == IF n = "Model-A" THEN "model-a" ELSE n
        hit == { n \in DOMAIN map : lower(n) = lower(key) /\ map[n] # NoAccount }
    IN  IF hit = {} THEN None ELSE Some(map[CHOOSE n \in hit : TRUE])
\* HashMap::get (line 131): the key is compared by String equality
get(map, key) == IF map[key] = NoAccount THEN None ELSE Some(map[key])

\* AvsLogic::new (lines 42-48)
new(center) == [attestation_center |-> center, request_id |-> 0, models |-> HashMap_new]

Init ==
    /\ \E center \in Centers :
         /\ attestation_center = new(center).attestation_center
         /\ request_id = new(center).request_id
         /\ models = new(center).models
    /\ overflow_checks \in BOOLEAN
    /\ yield_count = 0
    /\ yields = << >>
    /\ outcome = NoCall

(***************************************************************************)
(* before_task_submission (lines 50-91)                                    *)
(***************************************************************************)
\* self.request_id += 1 (line 60): at the largest value the addition panics
\* in a build with overflow checks and wraps to 0 in a build without; checks
\* says which.
add_one(n, checks) ==
    [panic |-> n = U64Max /\ checks, value |-> (n + 1) % (2^U64Bits)]

\* env::promise_yield_create (lines 62-70): the host adds suspension number k,
\* pending, whose callback is return_external_response with the given
\* arguments.
promise_yield_create(ys, k, args) ==
    [j \in DOMAIN ys \cup {k} |->
        IF j = k THEN [args |-> args, status |-> "pending", data |-> << >>]
        ELSE ys[j]]

\* What the host may have left in YIELD_REGISTER for the k-th suspension: its
\* data id, nothing, or a value that is not 32 bytes long.
RegisterWrites(k) == { Some(DataId(k)), None, Some(SubSeq(DataId(k), 2, CryptoHashLen)) }

\* env::read_register(YIELD_REGISTER) (line 73)
read_register(registers, register_id) == registers[register_id]

\* Vec<u8> -> CryptoHash (line 75)
try_into(bytes) ==
    IF Len(bytes) = CryptoHashLen THEN [ok |-> TRUE, value |-> bytes]
    ELSE [ok |-> FALSE, value |-> << >>]

\* AvsEvent (lines 31-36, 82-86)
AvsEvent(yield_id) ==
    [model_name |-> "model_name", prompt |-> "prompt", yield_id |-> yield_id]

\* before_task_submission with the event built from a zeroed id instead of the
\* id read from the register
before_task_submission_ZeroId(self_request_id, ys, count, checks, written) ==
    LET inc == add_one(self_request_id, checks)
        created == promise_yield_create(ys, count + 1, json_args(inc.value))
        yield_id == try_into(written.bytes)
    IN  IF inc.panic \/ ~written.some \/ ~yield_id.ok
        THEN [panicked |-> TRUE, request_id |-> self_request_id, yields |-> ys,
              yield_count |-> count, events |-> << >>]
        ELSE [panicked |-> FALSE, request_id |-> inc.value, yields |-> created,
              yield_count |-> count + 1,
              events |-> << AvsEvent([i \in 1..CryptoHashLen |-> 0]) >>]

\* before_task_submission whose failure leaves the increment and the
\* suspension behind
before_task_submission_Dangling(self_request_id, ys, count, checks, written) ==
    LET inc == add_one(self_request_id, checks)
        created == promise_yield_create(ys, count + 1, json_args(inc.value))
        yield_id == try_into(written.bytes)
    IN  IF inc.panic
        THEN [panicked |-> TRUE, request_id |-> self_request_id, yields |-> ys,
              yield_count |-> count, events |-> << >>]
        ELSE IF ~written.some \/ ~yield_id.ok
        THEN [panicked |-> TRUE, request_id |-> inc.value, yields |-> created,
              yield_count |-> count + 1, events |-> << >>]
        ELSE [panicked |-> FALSE, request_id |-> inc.value, yields |-> created,
              yield_count |-> count + 1, events |-> << AvsEvent(yield_id.value) >>]

\* The call as a whole: what it commits and emits, or that it panicked.
\* count is the number of suspensions the host has created before the call.
before_task_submission(self_request_id, ys, count, checks, written) ==
    LET inc == add_one(self_request_id, checks)
        created == promise_yield_create(ys, count + 1, json_args(inc.value))
        registers == [r \in {YIELD_REGISTER} |-> written]
        read == read_register(registers, YIELD_REGISTER)
        yield_id == try_into(read.bytes)
    IN  IF inc.panic \/ ~read.some \/ ~yield_id.ok
        THEN [panicked |-> TRUE, request_id |-> self_request_id, yields |-> ys,
              yield_count |-> count, events |-> << >>]
        ELSE [panicked |-> FALSE, request_id |-> inc.value, yields |-> created,
              yield_count |-> count + 1, events |-> << AvsEvent(yield_id.value) >>]

BeforeTaskSubmission ==
    /\ yield_count < MaxYields
    /\ Cardinality(DOMAIN yields) < MaxPending
    /\ \E written \in RegisterWrites(yield_count + 1) :
         LET r == before_task_submission(request_id, yields, yield_count,
                                         overflow_checks, written)
         IN  /\ request_id' = r.request_id
             /\ yields' = r.yields
             /\ yield_count' = r.yield_count
             /\ outcome' = [NoCall EXCEPT !.fn = "before_task_submission",
                               !.status = IF r.panicked THEN "panicked" ELSE "returned",
                               !.events = r.events]
    /\ UNCHANGED <<attestation_center, models, overflow_checks>>

(***************************************************************************)
(* respond (lines 93-96)                                                   *)
(***************************************************************************)
\* The pending suspension a data id names, if any
Named(ys, yield_id) ==
    { k \in DOMAIN ys : DataId(k) = yield_id /\ ys[k].status = "pending" }

\* A resume that also takes a suspension that was resumed already
promise_yield_resume_Again(ys, yield_id, data) ==
    LET hit == { k \in DOMAIN ys : DataId(k) = yield_id
                                   /\ ys[k].status \in {"pending", "resumed"} }
    IN  [resumed |-> hit # {},
         yields |-> [k \in DOMAIN ys |->
                       IF k \in hit
                       THEN [ys[k] EXCEPT !.status = "resumed", !.data = data]
                       ELSE ys[k]]]

\* env::promise_yield_resume (line 95): the host delivers the data to the
\* pending suspension the id names and answers true; for any other id it
\* delivers nothing and answers false.
promise_yield_resume(ys, yield_id, data) ==
    [resumed |-> Named(ys, yield_id) # {},
     yields |-> [k \in DOMAIN ys |->
                   IF k \in Named(ys, yield_id)
                   THEN [ys[k] EXCEPT !.status = "resumed", !.data = data]
                   ELSE ys[k]]]

\* The method: the bool the host answers is dropped, the call returns.
respond(ys, yield_id, response) ==
    LET r == promise_yield_resume(ys, yield_id, to_vec(response))
    IN  [panicked |-> FALSE, resumed |-> r.resumed, yields |-> r.yields]

\* A call of respond; who calls is not an input here (see RespondFrom).
Respond ==
    /\ \E k \in 1..(yield_count + 1), response \in Responses :
         LET r == respond(yields, DataId(k), response)
         IN  /\ yields' = r.yields
             /\ outcome' = [NoCall EXCEPT !.fn = "respond",
                               !.status = IF r.panicked THEN "panicked" ELSE "returned",
                               !.yield_id = DataId(k), !.resumed = r.resumed,
                               !.delivered = IF r.resumed THEN response ELSE << >>]
    /\ UNCHANGED <<attestation_center, request_id, models, overflow_checks, yield_count>>

\* respond open to the attestation center only
respond_from_CenterOnly(predecessor, ys, yield_id, response) ==
    IF predecessor \in Centers
    THEN respond(ys, yield_id, response)
    ELSE [panicked |-> TRUE, resumed |-> FALSE, yields |-> ys]

\* The exported method as account predecessor calls it: it is public (no
\* #[private], line 93) and its body never reads the caller (lines 94-95).
respond_from(predecessor, ys, yield_id, response) ==
    respond(ys, yield_id, response)

\* A call of respond with the caller as an input of the step
RespondFrom ==
    /\ \E caller \in RespondCallers, k \in 1..(yield_count + 1), response \in Responses :
         LET r == respond_from(caller, yields, DataId(k), response)
         IN  /\ yields' = r.yields
             /\ outcome' = [NoCall EXCEPT !.fn = "respond",
                               !.status = IF r.panicked THEN "panicked" ELSE "returned",
                               !.caller = caller,
                               !.yield_id = DataId(k), !.resumed = r.resumed,
                               !.delivered = IF r.resumed THEN response ELSE << >>]
    /\ UNCHANGED <<attestation_center, request_id, models, overflow_checks, yield_count>>

\* The host's timeout of a pending suspension: its callback will get a failure.
Timeout ==
    /\ \E k \in DOMAIN yields :
         /\ yields[k].status = "pending"
         /\ yields' = [yields EXCEPT ![k].status = "timedout"]
         /\ outcome' = [NoCall EXCEPT !.fn = "host_timeout", !.yield_id = DataId(k)]
    /\ UNCHANGED <<attestation_center, request_id, models, overflow_checks, yield_count>>

(***************************************************************************)
(* return_external_response (lines 98-110)                                 *)
(***************************************************************************)
\* The method body (lines 106-109)
return_external_response(req_id, response) ==
    IF response.ok THEN Answer(response.value) ELSE TimeOutError

\* The finalizer without #[private]
callback_Public(y, predecessor) ==
    LET args == from_json_u32(y.args)
        read == from_slice(y.data)
        response == IF y.status = "resumed" THEN Ok(read.text) ELSE Err
    IN  IF ~args.ok \/ y.status = "none"
           \/ (y.status = "resumed" /\ ~read.ok)
        THEN [panicked |-> TRUE, value |-> NoResponse]
        ELSE [panicked |-> FALSE,
              value |-> return_external_response(args.value, response)]

\* One call of return_external_response with arguments y.args and promise
\* result y.status/y.data ("none": the call has no promise result):
\* #[private] (line 98), the arguments read as request_id: u32 (line 101),
\* the promise result read as Result<String, PromiseError> (line 102), then
\* the body.  For a suspension y this is the call the host makes.
callback(y, predecessor) ==
    LET args == from_json_u32(y.args)
        read == from_slice(y.data)
        response == IF y.status = "resumed" THEN Ok(read.text) ELSE Err
    IN  IF predecessor # ContractAccount \/ ~args.ok \/ y.status = "none"
           \/ (y.status = "resumed" /\ ~read.ok)
        THEN [panicked |-> TRUE, value |-> NoResponse]
        ELSE [panicked |-> FALSE,
              value |-> return_external_response(args.value, response)]

\* The host runs the callback of a resumed or timed-out suspension, once, and
\* the suspension is gone.
ReturnExternalResponse ==
    /\ \E k \in DOMAIN yields :
         /\ yields[k].status \in {"resumed", "timedout"}
         /\ LET r == callback(yields[k], ContractAccount)
            IN  /\ yields' = [j \in DOMAIN yields \ {k} |-> yields[j]]
                /\ outcome' = [NoCall EXCEPT !.fn = "return_external_response",
                                  !.status = IF r.panicked THEN "panicked" ELSE "returned",
                                  !.caller = ContractAccount,
                                  !.yield_id = DataId(k),
                                  !.data = yields[k].data,
                                  !.resumed = yields[k].status = "resumed",
                                  !.value = r.value]
    /\ UNCHANGED <<attestation_center, request_id, models, overflow_checks, yield_count>>

\* What a call of return_external_response that is not the host's callback
\* of a suspension can carry.  Another account names the method in a
\* transaction (no promise result) or as the callback of a promise of its
\* own, whose result it chooses; the contract's own account can only name it
\* in a transaction, since the one promise this contract chains to the
\* method is the suspension's (lines 62-70).
PromiseResults(caller) ==
    IF caller = ContractAccount
    THEN { [status |-> "none", data |-> << >>] }
    ELSE { [status |-> "none", data |-> << >>],
           [status |-> "timedout", data |-> << >>] }
         \cup { [status |-> "resumed", data |-> to_vec(t)] : t \in Responses }

\* A call of return_external_response that the host did not make for a
\* suspension.  An account other than the contract fails #[private]; the
\* contract's own account has no promise result to read, so the host aborts
\* the call.
ExternalReturnExternalResponse ==
    /\ \E caller \in ExternalCallers :
         \E result \in PromiseResults(caller) :
           LET r == callback([args |-> json_args(0), status |-> result.status,
                              data |-> result.data], caller)
           IN  outcome' = [NoCall EXCEPT !.fn = "return_external_response",
                              !.status = IF r.panicked THEN "panicked" ELSE "returned",
                              !.caller = caller, !.value = r.value]
    /\ UNCHANGED <<attestation_center, request_id, models, overflow_checks,
                   yield_count, yields>>

(***************************************************************************)
(* register_model (lines 113-117), after_task_submission (lines 120-147)   *)
(***************************************************************************)
\* register_model that starts the registry afresh
register_model_Replace(self_models, model_addr, model_name, reward) ==
    [models |-> insert(HashMap_new, model_name, model_addr),
     logs |-> << "Model registered" >>]

register_model(self_models, model_addr, model_name, reward) ==
    [models |-> insert(self_models, model_name, model_addr),
     logs |-> << "Model registered" >>]

RegisterModel ==
    /\ \E model_addr \in Accounts, model_name \in ModelNames, reward \in Rewards :
         LET r == register_model(models, model_addr, model_name, reward)
         IN  /\ models' = r.models
             /\ outcome' = [NoCall EXCEPT !.fn = "register_model", !.status = "returned",
                               !.logs = r.logs, !.model_name = model_name,
                               !.account = model_addr]
    /\ UNCHANGED <<attestation_center, request_id, overflow_checks, yield_count, yields>>

\* model_info is ModelInfo {model_name, reward} (lines 12-15)
after_task_submission(self_models, model_info) ==
    LET model_account == get(self_models, model_info.model_name)
    IN  IF model_account.some
        THEN [logs |-> << "Running inference", "Rewarding performer" >>,
              transfers |-> << [receiver |-> model_account.bytes,
                                amount |-> model_info.reward] >>]
        ELSE [logs |-> << "No model registered" >>, transfers |-> << >>]

AfterTaskSubmission ==
    /\ \E model_name \in ModelNames, reward \in Rewards :
         LET r == after_task_submission(models, [model_name |-> model_name, reward |-> reward])
         IN  outcome' = [NoCall EXCEPT !.fn = "after_task_submission",
                            !.status = "returned", !.logs = r.logs,
                            !.transfers = r.transfers, !.model_name = model_name,
                            !.reward = reward]
    /\ UNCHANGED <<attestation_center, request_id, models, overflow_checks,
                   yield_count, yields>>

Next ==
    \/ BeforeTaskSubmission
    \/ Respond
    \/ Timeout
    \/ ReturnExternalResponse
    \/ ExternalReturnExternalResponse
    \/ RegisterModel
    \/ AfterTaskSubmission

Spec == Init /\ [][Next]_vars

\* The life of a suspension with the caller of respond told apart
NextCallers ==
    \/ BeforeTaskSubmission
    \/ RespondFrom
    \/ Timeout
    \/ ReturnExternalResponse

SpecCallers == Init /\ [][NextCallers]_vars

(***************************************************************************)
(* Properties                                                              *)
(***************************************************************************)
\* The latest step was the host running the callback of a suspension
IsCallback(o) == o.fn = "return_external_response" /\ o.yield_id # << >>

\* The suspensions whose callback has run
Finalized == (1..yield_count) \ DOMAIN yields

\* C1: whenever the host runs the finalizer for a suspension it produces one
\* terminal value: Answer(text) when respond delivered text before the
\* timeout, TimeOutError otherwise; no suspension ends with none.
C1_ExactlyOneTerminalValue ==
    IsCallback(outcome) =>
        /\ outcome.status = "returned"
        /\ IF outcome.resumed
           THEN \E text \in Responses :
                    outcome.data = to_vec(text) /\ outcome.value = Answer(text)
           ELSE outcome.value = TimeOutError

C3_TimeoutGivesTimeOutError ==
    (IsCallback(outcome) /\ ~outcome.resumed) =>
        (outcome.status = "returned" /\ outcome.value = TimeOutError)

\* C4: request_id equals the number of submissions that completed.
C4_CounterEqualsSubmissions == request_id = yield_count

\* C5: a before_task_submission that completes creates exactly one new
\* suspension, pending, and emits exactly one event, whose yield_id is the id
\* of that suspension and differs from the id of every earlier one, with the
\* literal model_name and prompt; nothing else emits events.
C5_OneSuspensionOneEvent ==
    [][ /\ (outcome'.fn = "before_task_submission" /\ outcome'.status = "returned") =>
            /\ yield_count' = yield_count + 1
            /\ DOMAIN yields' = DOMAIN yields \cup {yield_count'}
            /\ yield_count' \notin DOMAIN yields
            /\ yields'[yield_count'].status = "pending"
            /\ \A j \in DOMAIN yields : yields'[j] = yields[j]
            /\ outcome'.events =
                 << [model_name |-> "model_name", prompt |-> "prompt",
                     yield_id |-> DataId(yield_count')] >>
            /\ \A j \in 1..yield_count : DataId(j) # DataId(yield_count')
        /\ ~(outcome'.fn = "before_task_submission" /\ outcome'.status = "returned") =>
            /\ outcome'.events = << >>
            /\ yield_count' = yield_count
      ]_vars

C5_Witness ==
    /\ outcome.fn = "before_task_submission"
    /\ outcome.status = "returned"
    /\ yield_count = 2
    /\ DOMAIN yields = {1, 2}

\* C6: respond on a pending token resumes only the suspension it names, with
\* the text as data, and the finalizer of that suspension returns exactly
\* Answer(text); the other suspensions are left as they were.
C6_RespondResumesOnlyNamed ==
    [][ /\ (outcome'.fn = "respond" /\ outcome'.resumed) =>
            \E k \in DOMAIN yields :
                /\ DataId(k) = outcome'.yield_id
                /\ yields[k].status = "pending"
                /\ yields' = [yields EXCEPT ![k].status = "resumed",
                                            ![k].data = to_vec(outcome'.delivered)]
        /\ (IsCallback(outcome') /\ outcome'.resumed) =>
            \E text \in Responses :
                outcome'.data = to_vec(text) /\ outcome'.value = Answer(text)
      ]_vars

\* C7: a respond whose token names no pending suspension fails as a call and
\* changes neither the contract state nor the suspensions.
C7_RejectedRespondFails ==
    [][ (outcome'.fn = "respond" /\ ~outcome'.resumed) =>
            /\ outcome'.status = "panicked"
            /\ UNCHANGED <<attestation_center, request_id, models, yield_count, yields>>
      ]_vars

\* C8: a before_task_submission that aborts leaves request_id as it was,
\* emits no event and leaves no suspension behind.
C8_AbortCommitsNothing ==
    [][ (outcome'.fn = "before_task_submission" /\ outcome'.status = "panicked") =>
            /\ request_id' = request_id
            /\ yield_count' = yield_count
            /\ yields' = yields
            /\ outcome'.events = << >>
      ]_vars

\* An abort that is not the overflow of the counter: the register held no
\* 32-byte id.
C8_Witness ==
    /\ outcome.fn = "before_task_submission"
    /\ outcome.status = "panicked"
    /\ request_id = 1
    /\ yield_count = 1
    /\ DOMAIN yields = {1}

\* C9: a transfer is issued only after the callback of some submitted
\* request has run.
C9_TransferAfterResumption ==
    outcome.transfers # << >> => Finalized # {}

\* C10: register_model maps the name to the account given and nothing else
\* changes the registry, so a name maps to the account registered for it
\* last and never becomes unregistered; after_task_submission issues exactly
\* one transfer, of the reward given in the call, to that account, or none
\* when the name was never registered; no other call issues a transfer.
C10_RewardToRegisteredAccount ==
    [][ /\ outcome'.fn = "register_model" =>
            models' = [models EXCEPT ![outcome'.model_name] = outcome'.account]
        /\ outcome'.fn # "register_model" => models' = models
        /\ \A n \in ModelNames : models[n] \in Accounts => models'[n] \in Accounts
        /\ outcome'.fn = "after_task_submission" =>
            outcome'.transfers =
                IF models[outcome'.model_name] \in Accounts
                THEN << [receiver |-> models[outcome'.model_name],
                         amount |-> outcome'.reward] >>
                ELSE << >>
        /\ outcome'.fn # "after_task_submission" => outcome'.transfers = << >>
      ]_vars

C10_Witness ==
    /\ outcome.fn = "after_task_submission"
    /\ models["Model-A"] = "other.testnet"
    /\ models["model-a"] = NoAccount
    /\ outcome.model_name = "Model-A"
    /\ outcome.transfers = << [receiver |-> "other.testnet", amount |-> 1] >>


\* C11: after_task_submission looks the model up by exact equality of the
\* name: for a name that is not itself a key of the registry (for one that
\* differs from a registered name only in case, too) the call returns
\* normally, makes no transfer, reports that no model is registered, and
\* leaves the registry and the counter as they were.
C11_UnregisteredNameNoTransfer ==
    [][(outcome'.fn = "after_task_submission"
        /\ models[outcome'.model_name] = NoAccount)
       => /\ outcome'.status = "returned"
          /\ outcome'.transfers = << >>
          /\ outcome'.logs = << "No model registered" >>
          /\ models' = models
          /\ request_id' = request_id]_vars

C11_Witness ==
    /\ outcome.fn = "after_task_submission"
    /\ outcome.model_name = "model-a"
    /\ models["Model-A"] # NoAccount
    /\ models["model-a"] = NoAccount
    /\ outcome.logs = << "No model registered" >>

\* C12: a submission that returns has incremented the counter before it
\* created the suspension, so the payload of the k-th successful
\* submission's suspension is the counter's value after the increment, which
\* is k; its one event carries the token of that new suspension; and the
\* finalizer yields a value only for a token whose suspension, and so whose
\* event, came in an earlier step.
C12_SubmissionOrder ==
    [][/\ (outcome'.fn = "before_task_submission" /\ outcome'.status = "returned")
          => /\ yield_count' = yield_count + 1
             /\ yield_count' \notin DOMAIN yields
             /\ yield_count' \in DOMAIN yields'
             /\ yields'[yield_count'].args = json_args(request_id')
             /\ yields'[yield_count'].args = json_args(yield_count')
             /\ outcome'.events = << AvsEvent(DataId(yield_count')) >>
       /\ (IsCallback(outcome') /\ outcome'.value # NoResponse)
          => \E k \in 1..yield_count :
                k \in DOMAIN yields /\ DataId(k) = outcome'.yield_id]_vars

\* C13: the counter never leaves the range of a 32-bit unsigned integer, so
\* the payload of every suspension is one the finalizer's request_id: u32
\* parameter accepts.
C13_PayloadFitsU32 ==
    /\ request_id <= U32Max
    /\ \A k \in DOMAIN yields : from_json_u32(yields[k].args).ok

\* C14: every step leaves request_id as it was or adds exactly one to it,
\* also at the largest 64-bit value: it never decreases and never wraps.
C14_CounterNeverDecreases ==
    [][request_id' = request_id \/ request_id' = request_id + 1]_vars

\* C15: respond, return_external_response and after_task_submission leave
\* request_id, the registry and attestation_center as they were;
\* register_model changes the registry entry of the name it is given and
\* nothing else; before_task_submission changes request_id only; and
\* attestation_center never changes.
C15_Frame ==
    [][/\ attestation_center' = attestation_center
       /\ outcome'.fn \in {"respond", "return_external_response", "after_task_submission"}
          => (request_id' = request_id /\ models' = models)
       /\ outcome'.fn = "register_model"
          => /\ request_id' = request_id
             /\ \A n \in ModelNames \ {outcome'.model_name} : models'[n] = models[n]
       /\ outcome'.fn = "before_task_submission" => models' = models]_vars

C15_Witness ==
    /\ outcome.fn = "register_model"
    /\ request_id > 0
    /\ \E n \in ModelNames \ {outcome.model_name} : models[n] # NoAccount

C17_FinalizerPrivate ==
    [][/\ (outcome'.fn = "return_external_response" /\ ~IsCallback(outcome'))
          => /\ outcome'.status = "panicked"
             /\ outcome'.value = NoResponse
             /\ yields' = yields
       /\ outcome'.value # NoResponse
          => /\ IsCallback(outcome')
             /\ outcome'.caller = ContractAccount
             /\ \E k \in DOMAIN yields :
                   /\ DataId(k) = outcome'.yield_id
                   /\ yields[k].status \in {"resumed", "timedout"}
                   /\ k \notin Finalized
                   /\ Finalized' = Finalized \cup {k}
       /\ Finalized \subseteq Finalized'
       /\ Cardinality(Finalized') <= yield_count']_vars

C17_Witness ==
    /\ outcome.fn = "return_external_response"
    /\ outcome.caller \in ExternalCallers \ {ContractAccount}
    /\ outcome.status = "panicked"
    /\ outcome.value = NoResponse
    /\ \E k \in DOMAIN yields : yields[k].status = "resumed"

====
